---- MODULE Spec2Model ----
(***************************************************************************)
(* Model of src/src/app.js: an express router holding an in-memory user    *)
(* collection (users, nextId), wrapped by a metrics middleware that counts *)
(* in-flight requests (activeConnections) and records one sample per       *)
(* finished response (httpRequestDuration, httpRequestTotal).              *)
(*                                                                         *)
(* JavaScript strings are sequences of one-character strings, so that      *)
(* trim, toLowerCase, includes, the e-mail regular expression, parseInt    *)
(* and the numeric coercion of query values are computed, not assumed.     *)
(* JavaScript numbers that can be NaN or Infinity are records              *)
(* [k |-> "num" | "nan" | "inf", v |-> Int].                               *)
(*                                                                         *)
(* A route handler is synchronous code: the middleware's entry step and    *)
(* the handler run as one step.  The 'finish' event of the response is     *)
(* emitted later, so other requests may enter in between.                  *)
(***************************************************************************)
EXTENDS Integers, Sequences, FiniteSets, Bags, TLC

VARIABLES users, nextId, now, inflight, activeConnections,
          httpRequestTotal, httpRequestDuration, nreq

vars == <<users, nextId, now, inflight, activeConnections,
          httpRequestTotal, httpRequestDuration, nreq>>

----------------------------------------------------------------------------
(* Bounds of the model. *)

\* number of requests that may be between entry and 'finish' at one time
MaxInFlight == 2
\* number of requests served in one run
MaxRequests == 2
\* largest value of the clock read by new Date()
MaxClock == 1
\* largest id a request path names
MaxPathId == 3
\* largest page / limit value a list request carries (smallest is -1)
MaxPage == 3
MaxLimit == 3

----------------------------------------------------------------------------
(* JavaScript strings *)

WhiteSpace == {" ", "\t"}
UpperCase == <<"A", "B", "C", "D", "E", "F", "G", "H", "I", "J", "K", "L", "M",
               "N", "O", "P", "Q", "R", "S", "T", "U", "V", "W", "X", "Y", "Z">>
LowerCase == <<"a", "b", "c", "d", "e", "f", "g", "h", "i", "j", "k", "l", "m",
               "n", "o", "p", "q", "r", "s", "t", "u", "v", "w", "x", "y", "z">>
Digits == <<"0", "1", "2", "3", "4", "5", "6", "7", "8", "9">>

\* String.prototype.trim
RECURSIVE TrimLeft(_)
TrimLeft(s) ==
    IF s # <<>> /\ Head(s) \in WhiteSpace THEN TrimLeft(Tail(s)) ELSE s

RECURSIVE TrimRight(_)
TrimRight(s) ==
    IF s # <<>> /\ s[Len(s)] \in WhiteSpace
    THEN TrimRight(SubSeq(s, 1, Len(s) - 1)) ELSE s

Trim(s) == TrimRight(TrimLeft(s))

\* String.prototype.toLowerCase
LowerChar(c) ==
    IF \E i \in 1..26 : UpperCase[i] = c
    THEN LowerCase[CHOOSE i \in 1..26 : UpperCase[i] = c]
    ELSE c

ToLowerCase(s) == [i \in 1..Len(s) |-> LowerChar(s[i])]

\* String.prototype.includes
Includes(s, t) ==
    \E i \in 0..(Len(s) - Len(t)) : SubSeq(s, i + 1, i + Len(t)) = t

\* /\S+@\S+\.\S+/.test(s): the pattern is not anchored, a match anywhere in
\* the string is enough
NonSpace(s, i) == i \in 1..Len(s) /\ s[i] \notin WhiteSpace

EmailRegexTest(s) ==
    \E p, q \in 1..Len(s) :
        /\ s[p] = "@"
        /\ s[q] = "."
        /\ q >= p + 2
        /\ NonSpace(s, p - 1)
        /\ \A i \in (p + 1)..(q - 1) : NonSpace(s, i)
        /\ NonSpace(s, q + 1)

----------------------------------------------------------------------------
(* JavaScript values of a request: a string, undefined, or a number *)

Str(s) == [t |-> "str", s |-> s]
Undefined == [t |-> "undef", s |-> <<>>]
NumberValue == [t |-> "num", s |-> <<>>]

\* truthiness: undefined and "" are falsy, a (non-zero) number is truthy
Truthy(v) == \/ v.t = "num"
             \/ v.t = "str" /\ v.s # <<>>

----------------------------------------------------------------------------
(* JavaScript numbers *)

JsNum(n) == [k |-> "num", v |-> n]
JsNaN == [k |-> "nan", v |-> 0]
JsInf == [k |-> "inf", v |-> 1]

IsDigit(c) == \E i \in 1..10 : Digits[i] = c
DigitVal(c) == (CHOOSE i \in 1..10 : Digits[i] = c) - 1

RECURSIVE DigitPrefix(_)
DigitPrefix(s) ==
    IF s # <<>> /\ IsDigit(Head(s)) THEN <<Head(s)>> \o DigitPrefix(Tail(s))
    ELSE <<>>

RECURSIVE DigitsValue(_)
DigitsValue(s) ==
    IF s = <<>> THEN 0 ELSE 10 * DigitsValue(SubSeq(s, 1, Len(s) - 1))
                            + DigitVal(s[Len(s)])

\* parseInt(s): leading white space, an optional sign, the longest run of
\* digits; NaN when there is no digit
ParseIntStr(s) ==
    LET t == TrimLeft(s)
        neg == t # <<>> /\ Head(t) = "-"
        u == IF t # <<>> /\ Head(t) \in {"-", "+"} THEN Tail(t) ELSE t
        d == DigitPrefix(u)
    IN  IF d = <<>> THEN JsNaN
        ELSE JsNum(IF neg THEN 0 - DigitsValue(d) ELSE DigitsValue(d))

\* Number(s), the coercion applied by - and *: the whole trimmed string must
\* be a signed run of digits; "" is 0
ToNumberStr(s) ==
    LET t == Trim(s)
        neg == t # <<>> /\ Head(t) = "-"
        u == IF t # <<>> /\ Head(t) \in {"-", "+"} THEN Tail(t) ELSE t
    IN  IF t = <<>> THEN JsNum(0)
        ELSE IF u # <<>> /\ DigitPrefix(u) = u
             THEN JsNum(IF neg THEN 0 - DigitsValue(u) ELSE DigitsValue(u))
             ELSE JsNaN

JsSub(a, b) == IF a.k = "num" /\ b.k = "num" THEN JsNum(a.v - b.v) ELSE JsNaN
JsMul(a, b) == IF a.k = "num" /\ b.k = "num" THEN JsNum(a.v * b.v) ELSE JsNaN

\* Math.ceil(n / d) for an array length n >= 0
CeilDiv(n, d) ==
    IF d.k # "num" THEN JsNaN
    ELSE IF d.v = 0 THEN (IF n = 0 THEN JsNaN ELSE JsInf)
    ELSE IF d.v > 0 THEN JsNum((n + d.v - 1) \div d.v)
    ELSE JsNum(0 - (n \div (0 - d.v)))

\* Array.prototype.slice(start, end): NaN is 0, a negative index counts from
\* the end, both are clamped to the array
RelIndex(x, len) ==
    IF x.k # "num" THEN 0
    ELSE IF x.v < 0 THEN (IF len + x.v < 0 THEN 0 ELSE len + x.v)
    ELSE IF x.v > len THEN len ELSE x.v

Slice(a, start, end) ==
    SubSeq(a, RelIndex(start, Len(a)) + 1, RelIndex(end, Len(a)))

----------------------------------------------------------------------------
(* The store: src/src/app.js lines 69-74 *)

NoDate == 0 - 1

JohnDoe == <<"J", "o", "h", "n", " ", "D", "o", "e">>
JohnEmail == <<"j", "o", "h", "n", "@", "e", "x", "a", "m", "p", "l", "e",
               ".", "c", "o", "m">>
JaneSmith == <<"J", "a", "n", "e", " ", "S", "m", "i", "t", "h">>
JaneEmail == <<"j", "a", "n", "e", "@", "e", "x", "a", "m", "p", "l", "e",
               ".", "c", "o", "m">>

SeedUsers ==
    << [id |-> 1, name |-> JohnDoe, email |-> JohnEmail,
        createdAt |-> 0, updatedAt |-> NoDate],
       [id |-> 2, name |-> JaneSmith, email |-> JaneEmail,
        createdAt |-> 0, updatedAt |-> NoDate] >>

SeedNextId == 3

\* index of the first record whose id is n, 0 when there is none
\* (users.findIndex(...) + 1); n is a JavaScript number, NaN equals nothing
IndexOfId(us, n) ==
    IF n.k = "num" /\ \E i \in 1..Len(us) : us[i].id = n.v
    THEN CHOOSE i \in 1..Len(us) :
            us[i].id = n.v /\ \A j \in 1..(i - 1) : us[j].id # n.v
    ELSE 0

\* findUserById(id): users.find(user => user.id === parseInt(id))
findUserById(us, id) == IndexOfId(us, ParseIntStr(id))

\* validateUser(user): the list of error messages.  user.name.trim() throws
\* a TypeError when name is truthy and not a string.
validateUserThrows(user) == Truthy(user.name) /\ user.name.t # "str"

NameInvalid(user) == ~Truthy(user.name) \/ Len(Trim(user.name.s)) = 0

EmailInvalid(user) == ~Truthy(user.email) \/ ~EmailRegexTest(user.email.s)

\* a validation that stops at the first failed check
validateUserFirstOnly(user) ==
    IF NameInvalid(user) THEN <<"Name is required">>
    ELSE IF EmailInvalid(user) THEN <<"Valid email is required">>
    ELSE <<>>

validateUser(user) ==
    (IF NameInvalid(user) THEN <<"Name is required">> ELSE <<>>)
    \o (IF EmailInvalid(user) THEN <<"Valid email is required">> ELSE <<>>)

----------------------------------------------------------------------------
(* Responses: what res.status(...).json(...) sends *)

NoPagination == [page |-> JsNaN, limit |-> JsNaN, total |-> 0, pages |-> JsNaN]

\* an error response that says success: true
ErrorResSuccessTrue(status, error, details) ==
    [status |-> status, success |-> TRUE, error |-> error,
     details |-> details, kind |-> "error", data |-> <<>>,
     pagination |-> NoPagination, totalUsers |-> 0]

ErrorRes(status, error, details) ==
    [status |-> status, success |-> FALSE, error |-> error,
     details |-> details, kind |-> "error", data |-> <<>>,
     pagination |-> NoPagination, totalUsers |-> 0]

UserRes(status, user) ==
    [status |-> status, success |-> TRUE, error |-> "",
     details |-> <<>>, kind |-> "user", data |-> <<user>>,
     pagination |-> NoPagination, totalUsers |-> 0]

ListRes(items, pagination) ==
    [status |-> 200, success |-> TRUE, error |-> "",
     details |-> <<>>, kind |-> "list", data |-> items,
     pagination |-> pagination, totalUsers |-> 0]

StatsRes(n) ==
    [status |-> 200, success |-> TRUE, error |-> "",
     details |-> <<>>, kind |-> "stats", data |-> <<>>,
     pagination |-> NoPagination, totalUsers |-> n]

\* the answer of the application's final handler: an HTML document with the
\* status of the error (404 when no route matched); it is no JSON object, so
\* it has no success field
FinalHandlerRes(status) ==
    [status |-> status, success |-> FALSE, error |-> "",
     details |-> <<>>, kind |-> "html", data |-> <<>>,
     pagination |-> NoPagination, totalUsers |-> 0]

NoRes == ErrorRes(0, "", <<>>)

----------------------------------------------------------------------------
(* GET /users: src/src/app.js lines 92-127 *)

\* a search filter that looks at the name only
MatchesNameOnly(user, search) ==
    Includes(ToLowerCase(user.name), ToLowerCase(search))

\* the search filter of lines 98-103
Matches(user, search) ==
    \/ Includes(ToLowerCase(user.name), ToLowerCase(search))
    \/ Includes(ToLowerCase(user.email), ToLowerCase(search))

FilteredUsers(us, search) ==
    IF Truthy(search)
    THEN LET Keep(u) == Matches(u, search.s) IN SelectSeq(us, Keep)
    ELSE us

\* the numeric value of a query parameter under - and *, and under parseInt;
\* an absent parameter takes the default of line 94
QueryNumber(v, default) ==
    IF v.t = "undef" THEN JsNum(default) ELSE ToNumberStr(v.s)

QueryParseInt(v, default) ==
    IF v.t = "undef" THEN JsNum(default) ELSE ParseIntStr(v.s)

\* a start offset that is always the beginning of the filtered set
StartIndexZero(page, limit) == JsNum(0)

StartIndex(page, limit) == JsMul(JsSub(page, JsNum(1)), limit)

\* an end offset that takes one record more
EndIndexInclusive(page, limit) == JsSub(JsMul(page, limit), JsNum(0 - 1))

EndIndex(page, limit) == JsMul(page, limit)

PaginatedUsers(filtered, page, limit) ==
    Slice(filtered, StartIndex(page, limit), EndIndex(page, limit))

\* a page count rounded down instead of up
PagesRoundedDown(filtered, limit) ==
    IF limit.k = "num" /\ limit.v > 0 THEN JsNum(Len(filtered) \div limit.v)
    ELSE CeilDiv(Len(filtered), limit)

Pages(filtered, limit) == CeilDiv(Len(filtered), limit)

GetUsersResult(us, q) ==
    LET filtered == FilteredUsers(us, q.search)
        page == QueryNumber(q.page, 1)
        limit == QueryNumber(q.limit, 10)
    IN  ListRes(PaginatedUsers(filtered, page, limit),
                [page |-> QueryParseInt(q.page, 1),
                 limit |-> QueryParseInt(q.limit, 10),
                 total |-> Len(filtered),
                 pages |-> Pages(filtered, limit)])

----------------------------------------------------------------------------
(* GET /users/:id: src/src/app.js lines 130-152 *)

GetUserResult(us, id) ==
    LET i == findUserById(us, id)
    IN  IF i = 0 THEN ErrorRes(404, "User not found", <<>>)
        ELSE UserRes(200, us[i])

----------------------------------------------------------------------------
(* POST /users: src/src/app.js lines 155-197 *)

\* a uniqueness check that looks at the most recent record only
EmailExistsLastOnly(us, email) ==
    /\ Len(us) > 0
    /\ email.t = "str"
    /\ us[Len(us)].email = email.s

\* users.find(user => user.email === req.body.email): the comparison is made
\* with the e-mail as sent, before it is trimmed
EmailExists(us, email) ==
    \E i \in 1..Len(us) : email.t = "str" /\ us[i].email = email.s

\* a record that keeps name and email as they were sent
NewUserUntrimmed(nid, t, body) ==
    [id |-> nid, name |-> body.name.s, email |-> body.email.s,
     createdAt |-> t, updatedAt |-> NoDate]

\* a record that is born with an update timestamp
NewUserStamped(nid, t, body) ==
    [id |-> nid, name |-> Trim(body.name.s), email |-> Trim(body.email.s),
     createdAt |-> t, updatedAt |-> t]

NewUser(nid, t, body) ==
    [id |-> nid, name |-> Trim(body.name.s), email |-> Trim(body.email.s),
     createdAt |-> t, updatedAt |-> NoDate]

\* a create that takes the id from the size of the collection
PostUsersResultIdFromLength(us, nid, t, body) ==
    IF validateUserThrows(body)
    THEN [users |-> us, nextId |-> nid,
          res |-> ErrorRes(500, "Failed to create user", <<>>)]
    ELSE IF Len(validateUser(body)) > 0
    THEN [users |-> us, nextId |-> nid,
          res |-> ErrorRes(400, "Validation failed", validateUser(body))]
    ELSE IF EmailExists(us, body.email)
    THEN [users |-> us, nextId |-> nid,
          res |-> ErrorRes(409, "Email already exists", <<>>)]
    ELSE [users |-> Append(us, NewUser(Len(us) + 1, t, body)),
          nextId |-> nid + 1,
          res |-> UserRes(201, NewUser(Len(us) + 1, t, body))]

\* a create that takes an id from the counter before it looks for the email
PostUsersResultCountsRejected(us, nid, t, body) ==
    IF validateUserThrows(body)
    THEN [users |-> us, nextId |-> nid,
          res |-> ErrorRes(500, "Failed to create user", <<>>)]
    ELSE IF Len(validateUser(body)) > 0
    THEN [users |-> us, nextId |-> nid,
          res |-> ErrorRes(400, "Validation failed", validateUser(body))]
    ELSE IF EmailExists(us, body.email)
    THEN [users |-> us, nextId |-> nid + 1,
          res |-> ErrorRes(409, "Email already exists", <<>>)]
    ELSE [users |-> Append(us, NewUser(nid, t, body)), nextId |-> nid + 1,
          res |-> UserRes(201, NewUser(nid, t, body))]

PostUsersResult(us, nid, t, body) ==
    IF validateUserThrows(body)
    THEN [users |-> us, nextId |-> nid,
          res |-> ErrorRes(500, "Failed to create user", <<>>)]
    ELSE IF Len(validateUser(body)) > 0
    THEN [users |-> us, nextId |-> nid,
          res |-> ErrorRes(400, "Validation failed", validateUser(body))]
    ELSE IF EmailExists(us, body.email)
    THEN [users |-> us, nextId |-> nid,
          res |-> ErrorRes(409, "Email already exists", <<>>)]
    ELSE [users |-> Append(us, NewUser(nid, t, body)), nextId |-> nid + 1,
          res |-> UserRes(201, NewUser(nid, t, body))]

----------------------------------------------------------------------------
(* PUT /users/:id: src/src/app.js lines 200-247 *)

\* users.find(u => u.email === req.body.email && u.id !== parseInt(id))
EmailExistsElsewhere(us, email, id) ==
    \E i \in 1..Len(us) :
        /\ email.t = "str"
        /\ us[i].email = email.s
        /\ ~(ParseIntStr(id).k = "num" /\ us[i].id = ParseIntStr(id).v)

\* an update that also stamps the creation time
UpdatedUserRestamps(user, t, body) ==
    [user EXCEPT !.name = Trim(body.name.s), !.email = Trim(body.email.s),
                 !.createdAt = t, !.updatedAt = t]

UpdatedUser(user, t, body) ==
    [user EXCEPT !.name = Trim(body.name.s), !.email = Trim(body.email.s),
                 !.updatedAt = t]

\* an update that writes the record before it looks for the email elsewhere
PutUserResultMutatesFirst(us, t, id, body) ==
    LET i == findUserById(us, id)
    IN  IF i = 0
        THEN [users |-> us, res |-> ErrorRes(404, "User not found", <<>>)]
        ELSE IF validateUserThrows(body)
        THEN [users |-> us,
              res |-> ErrorRes(500, "Failed to update user", <<>>)]
        ELSE IF Len(validateUser(body)) > 0
        THEN [users |-> us,
              res |-> ErrorRes(400, "Validation failed", validateUser(body))]
        ELSE IF EmailExistsElsewhere(us, body.email, id)
        THEN [users |-> [us EXCEPT ![i] = UpdatedUser(us[i], t, body)],
              res |-> ErrorRes(409, "Email already exists", <<>>)]
        ELSE [users |-> [us EXCEPT ![i] = UpdatedUser(us[i], t, body)],
              res |-> UserRes(200, UpdatedUser(us[i], t, body))]

PutUserResult(us, t, id, body) ==
    LET i == findUserById(us, id)
    IN  IF i = 0
        THEN [users |-> us, res |-> ErrorRes(404, "User not found", <<>>)]
        ELSE IF validateUserThrows(body)
        THEN [users |-> us,
              res |-> ErrorRes(500, "Failed to update user", <<>>)]
        ELSE IF Len(validateUser(body)) > 0
        THEN [users |-> us,
              res |-> ErrorRes(400, "Validation failed", validateUser(body))]
        ELSE IF EmailExistsElsewhere(us, body.email, id)
        THEN [users |-> us,
              res |-> ErrorRes(409, "Email already exists", <<>>)]
        ELSE [users |-> [us EXCEPT ![i] = UpdatedUser(us[i], t, body)],
              res |-> UserRes(200, UpdatedUser(us[i], t, body))]

----------------------------------------------------------------------------
(* DELETE /users/:id: src/src/app.js lines 250-275 *)

\* a removal that always takes the first record
SpliceFirst(us, i) == Tail(us)

\* users.splice(i - 1, 1)
Splice(us, i) == SubSeq(us, 1, i - 1) \o SubSeq(us, i + 1, Len(us))

DeleteUserResult(us, id) ==
    LET i == IndexOfId(us, ParseIntStr(id))
    IN  IF i = 0
        THEN [users |-> us, res |-> ErrorRes(404, "User not found", <<>>)]
        ELSE [users |-> Splice(us, i), res |-> UserRes(200, us[i])]

----------------------------------------------------------------------------
(* GET /stats: src/src/app.js lines 278-298 *)

\* statistics that report the highest id assigned instead of the count
StatsResultHighestId(us) ==
    StatsRes(IF us = <<>> THEN 0 ELSE us[Len(us)].id)

StatsResult(us) == StatsRes(Len(us))

----------------------------------------------------------------------------
(* Error-handling middleware: src/src/app.js lines 301-309.  status is the  *)
(* error's status property, 0 when the error has none.                     *)

(* message is the error's message, "" when it has none.                    *)

\* a middleware that answers 500 whatever the error says
ErrorStatusAlways500(status) == 500

ErrorStatus(status) == IF status # 0 THEN status ELSE 500

ErrorMiddlewareResult(error) ==
    ErrorRes(ErrorStatus(error.status),
             IF error.message # "" THEN error.message
             ELSE "Internal Server Error", <<>>)

----------------------------------------------------------------------------
(* Requests *)

Reqs == 1..MaxInFlight

NoQuery == [page |-> Undefined, limit |-> Undefined, search |-> Undefined]
NoBody == [name |-> Undefined, email |-> Undefined]

NoError == [status |-> 0, message |-> ""]

Req(method, path, id, body, query) ==
    [method |-> method, path |-> path, id |-> id, body |-> body,
     query |-> query, error |-> NoError]

NoReq == Req("", "", <<>>, NoBody, NoQuery)

\* a request between its entry and its 'finish': the req and res objects the
\* listener closes over (route is req.route.path, "" when req.route is unset).
\* before and alone are no program state.  They record, for the properties
\* that speak of it, the value the gauge had just before the request entered
\* and whether no other request has entered or completed since.
Idle == [st |-> "idle", req |-> NoReq, route |-> "", res |-> NoRes,
         before |-> 0, alone |-> FALSE]

\* the other requests in flight see request r enter or complete
Others(r) ==
    [s \in Reqs |-> IF inflight[s].st = "sent"
                    THEN [inflight[s] EXCEPT !.alone = FALSE]
                    ELSE inflight[s]]

\* a single-digit number as the text of a path segment or a query value
NumStr(n) == IF n < 0 THEN <<"-", Digits[1 - n]>> ELSE <<Digits[n + 1]>>

\* the :id segments sent: "1" .. MaxPathId, one that is not a number, and
\* one that starts with a digit and goes on with a letter
PathIds == {NumStr(n) : n \in 1..MaxPathId} \cup {<<"x">>, <<"1", "x">>}

NewEmail == <<"a", "@", "b", ".", "c">>

Names == {Str(<<"A", "l">>), Str(<<>>)}

Emails == {Str(JohnEmail), Str(<<" ">> \o JohnEmail), Str(NewEmail)}

Bodies == [name : Names, email : Emails]

PageValues == {Str(NumStr(n)) : n \in (0 - 1)..MaxPage}
                  \cup {Str(<<"x">>), Undefined}

LimitValues == {Str(NumStr(n)) : n \in (0 - 1)..MaxLimit}
                  \cup {Str(<<"x">>), Undefined}

SearchValues == {Undefined, Str(<<"j", "O">>), Str(<<"J", "A", "N", "E">>),
                 Str(<<"E", ".", "C">>)}

Queries == [page : PageValues, limit : LimitValues, search : SearchValues]

\* the list requests of the tests: no parameter, and page=1&limit=1
TestQueries == {NoQuery,
                [page |-> Str(NumStr(1)), limit |-> Str(NumStr(1)),
                 search |-> Undefined]}

\* the text of a sequence of characters, and req.path of a request for the
\* :id segment id
RECURSIVE Join(_)
Join(s) == IF s = <<>> THEN "" ELSE Head(s) \o Join(Tail(s))

UserPath(id) == "/users/" \o Join(id)

\* a path no route matches, and a path whose :id cannot be decoded
UnmatchedPath == "/health"
MalformedPath == "/users/%E0%A4%A"

\* errors handed to the error-handling middleware: the router's failure to
\* decode a parameter carries status 400; an error without a status
RouterErrors == {[status |-> 400, message |-> "Failed to decode param"],
                 [status |-> 0, message |-> ""]}

----------------------------------------------------------------------------
(* Metrics middleware, entry: src/src/app.js lines 42-47 and 65 *)

\* an entry step that leaves the gauge as it is
EnterNoIncrement(r) ==
    /\ inflight[r].st = "idle"
    /\ nreq < MaxRequests
    /\ \A s \in Reqs : s < r => inflight[s].st # "idle"
    /\ nreq' = nreq + 1
    /\ activeConnections' = activeConnections
    /\ UNCHANGED <<now, httpRequestTotal, httpRequestDuration>>

Enter(r) ==
    /\ inflight[r].st = "idle"
    /\ nreq < MaxRequests
    /\ \A s \in Reqs : s < r => inflight[s].st # "idle"
    /\ nreq' = nreq + 1
    /\ activeConnections' = activeConnections + 1
    /\ UNCHANGED <<now, httpRequestTotal, httpRequestDuration>>

\* the handler has called res.json(): the response is on its way
Sent(r, req, route, res) ==
    inflight' = [Others(r) EXCEPT ![r] =
                    [st |-> "sent", req |-> req, route |-> route, res |-> res,
                     before |-> activeConnections, alone |-> TRUE]]

----------------------------------------------------------------------------
(* One action per route *)

GetUsers(r, q) ==
    /\ Enter(r)
    /\ Sent(r, Req("GET", "/users", <<>>, NoBody, q), "/users",
            GetUsersResult(users, q))
    /\ UNCHANGED <<users, nextId>>

GetUser(r, id) ==
    /\ Enter(r)
    /\ Sent(r, Req("GET", UserPath(id), id, NoBody, NoQuery), "/users/:id",
            GetUserResult(users, id))
    /\ UNCHANGED <<users, nextId>>

PostUsers(r, body) ==
    LET out == PostUsersResult(users, nextId, now, body)
    IN  /\ Enter(r)
        /\ users' = out.users
        /\ nextId' = out.nextId
        /\ Sent(r, Req("POST", "/users", <<>>, body, NoQuery), "/users",
                out.res)

PutUser(r, id, body) ==
    LET out == PutUserResult(users, now, id, body)
    IN  /\ Enter(r)
        /\ users' = out.users
        /\ UNCHANGED nextId
        /\ Sent(r, Req("PUT", UserPath(id), id, body, NoQuery), "/users/:id",
                out.res)

DeleteUser(r, id) ==
    LET out == DeleteUserResult(users, id)
    IN  /\ Enter(r)
        /\ users' = out.users
        /\ UNCHANGED nextId
        /\ Sent(r, Req("DELETE", UserPath(id), id, NoBody, NoQuery),
                "/users/:id", out.res)

GetStats(r) ==
    /\ Enter(r)
    /\ Sent(r, Req("GET", "/stats", <<>>, NoBody, NoQuery), "/stats",
            StatsResult(users))
    /\ UNCHANGED <<users, nextId>>

\* no route matches: the router hands the request back to the application,
\* whose final handler answers 404; req.route stays unset
NoRoute(r) ==
    /\ Enter(r)
    /\ Sent(r, Req("GET", UnmatchedPath, <<>>, NoBody, NoQuery),
            "", FinalHandlerRes(404))
    /\ UNCHANGED <<users, nextId>>

\* an error raised after the metrics middleware reaches the error-handling
\* middleware; req.route is unset
ErrorRoute(r, error) ==
    /\ Enter(r)
    /\ Sent(r, [Req("GET", MalformedPath, <<>>, NoBody, NoQuery)
                    EXCEPT !.error = error],
            "", ErrorMiddlewareResult(error))
    /\ UNCHANGED <<users, nextId>>

----------------------------------------------------------------------------
(* The application of src/tests/app.test.js lines 5-8: express.json() runs  *)
(* before the router is entered.                                           *)

\* the error express.json() raises for a body that is no JSON text
JsonParseError == [status |-> 400, message |-> "Unexpected end of JSON input"]

\* POST /users with a body that cannot be parsed: express.json() hands the
\* error on, the router is a middleware of three arguments and is skipped
\* with everything in it (metrics middleware, routes, error-handling
\* middleware), and the application's final handler answers
MalformedJson(r) ==
    /\ inflight[r].st = "idle"
    /\ \A s \in Reqs : s < r => inflight[s].st # "idle"
    /\ inflight' = [inflight EXCEPT ![r] =
           [st |-> "rejected",
            req |-> [Req("POST", "/users", <<>>, NoBody, NoQuery)
                        EXCEPT !.error = JsonParseError],
            route |-> "", res |-> FinalHandlerRes(JsonParseError.status),
            before |-> 0, alone |-> FALSE]]
    /\ UNCHANGED <<users, nextId, now, nreq, activeConnections,
                   httpRequestTotal, httpRequestDuration>>

\* the answer of the final handler is finished; no listener was registered
FinalHandlerDone(r) ==
    /\ inflight[r].st = "rejected"
    /\ inflight' = [inflight EXCEPT ![r] = Idle]
    /\ UNCHANGED <<users, nextId, now, nreq, activeConnections,
                   httpRequestTotal, httpRequestDuration>>

----------------------------------------------------------------------------
(* Metrics middleware, completion: src/src/app.js lines 48-63 *)

\* a label that is always the raw path
RouteLabelRawPath(slot) == slot.req.path

\* req.route ? req.route.path : req.path
RouteLabel(slot) == IF slot.route # "" THEN slot.route ELSE slot.req.path

Labels(slot) == <<slot.req.method, RouteLabel(slot), slot.res.status>>

\* a listener that records the sample and leaves the gauge as it is
FinishNoDecrement(r) ==
    /\ inflight[r].st = "sent"
    /\ httpRequestDuration' =
           httpRequestDuration (+) SetToBag({Labels(inflight[r])})
    /\ httpRequestTotal' =
           httpRequestTotal (+) SetToBag({Labels(inflight[r])})
    /\ activeConnections' = activeConnections
    /\ inflight' = [Others(r) EXCEPT ![r] = Idle]
    /\ UNCHANGED <<users, nextId, now, nreq>>

\* a listener that counts the request and observes no duration
FinishCounterOnly(r) ==
    /\ inflight[r].st = "sent"
    /\ httpRequestDuration' = httpRequestDuration
    /\ httpRequestTotal' =
           httpRequestTotal (+) SetToBag({Labels(inflight[r])})
    /\ activeConnections' = activeConnections - 1
    /\ inflight' = [Others(r) EXCEPT ![r] = Idle]
    /\ UNCHANGED <<users, nextId, now, nreq>>

Finish(r) ==
    /\ inflight[r].st = "sent"
    /\ httpRequestDuration' =
           httpRequestDuration (+) SetToBag({Labels(inflight[r])})
    /\ httpRequestTotal' =
           httpRequestTotal (+) SetToBag({Labels(inflight[r])})
    /\ activeConnections' = activeConnections - 1
    /\ inflight' = [Others(r) EXCEPT ![r] = Idle]
    /\ UNCHANGED <<users, nextId, now, nreq>>

\* the connection is closed before the response is finished: the response
\* emits 'close' and never 'finish', and only 'finish' has a listener
Abort(r) ==
    /\ inflight[r].st = "sent"
    /\ inflight' = [inflight EXCEPT ![r] = Idle]
    /\ UNCHANGED <<users, nextId, now, nreq, activeConnections,
                   httpRequestTotal, httpRequestDuration>>

\* time passes between two reads of new Date()
Tick ==
    /\ now < MaxClock
    /\ now' = now + 1
    /\ UNCHANGED <<users, nextId, inflight, activeConnections,
                   httpRequestTotal, httpRequestDuration, nreq>>

----------------------------------------------------------------------------

Init ==
    /\ users = SeedUsers
    /\ nextId = SeedNextId
    /\ now = 0
    /\ inflight = [r \in Reqs |-> Idle]
    /\ activeConnections = 0
    /\ httpRequestTotal = EmptyBag
    /\ httpRequestDuration = EmptyBag
    /\ nreq = 0

\* The requests that read and change the store, with every body and id,
\* served within one reading of the clock.
Next ==
    \/ \E r \in Reqs, id \in PathIds : GetUser(r, id)
    \/ \E r \in Reqs, body \in Bodies : PostUsers(r, body)
    \/ \E r \in Reqs, id \in PathIds, body \in Bodies : PutUser(r, id, body)
    \/ \E r \in Reqs, id \in PathIds : DeleteUser(r, id)
    \/ \E r \in Reqs : Finish(r)

Spec == Init /\ [][Next]_vars

----------------------------------------------------------------------------
(* List requests served one at a time over the stores that the seed        *)
(* records, one create and the deletes lead to, with every combination of  *)
(* page, limit and search value; and the requests for one record.          *)

ListBody == [name |-> Str(<<"A", "l">>), email |-> Str(NewEmail)]

ListStores ==
    {SeedUsers,
     PostUsersResult(SeedUsers, SeedNextId, 0, ListBody).users,
     DeleteUserResult(SeedUsers, NumStr(1)).users,
     DeleteUserResult(DeleteUserResult(SeedUsers, NumStr(1)).users,
                      NumStr(2)).users}

InitList ==
    /\ users \in ListStores
    /\ nextId = SeedNextId + (IF Len(users) > 2 THEN 1 ELSE 0)
    /\ now = 0
    /\ inflight = [r \in Reqs |-> Idle]
    /\ activeConnections = 0
    /\ httpRequestTotal = EmptyBag
    /\ httpRequestDuration = EmptyBag
    /\ nreq = 0

NextList ==
    \/ \E q \in Queries : GetUsers(1, q)
    \/ \E id \in PathIds : GetUser(1, id)
    \/ Finish(1)

SpecList == InitList /\ [][NextList]_vars

----------------------------------------------------------------------------
(* Every route, the unmatched path and the error-handling middleware, with *)
(* one or two requests each, and both ways a response can end.             *)

MetricsIds == {NumStr(1), <<"x">>}

MetricsBodies == {[name |-> Str(<<"A", "l">>), email |-> Str(NewEmail)],
                  [name |-> NumberValue, email |-> Str(NewEmail)],
                  [name |-> Str(<<>>), email |-> Str(NewEmail)]}

NextMetrics ==
    \/ \E r \in Reqs : GetUsers(r, NoQuery)
    \/ \E r \in Reqs, id \in MetricsIds : GetUser(r, id)
    \/ \E r \in Reqs, body \in MetricsBodies : PostUsers(r, body)
    \/ \E r \in Reqs, id \in MetricsIds, body \in MetricsBodies :
           PutUser(r, id, body)
    \/ \E r \in Reqs, id \in MetricsIds : DeleteUser(r, id)
    \/ \E r \in Reqs : GetStats(r)
    \/ \E r \in Reqs : NoRoute(r)
    \/ \E r \in Reqs, error \in RouterErrors : ErrorRoute(r, error)
    \/ \E r \in Reqs : Finish(r)
    \/ \E r \in Reqs : Abort(r)
    \/ Tick

SpecMetrics == Init /\ [][NextMetrics]_vars

----------------------------------------------------------------------------
(* Creates and updates served one at a time, with every combination of a   *)
(* name and an email that validateUser tells apart: surrounded by white    *)
(* space, empty, white space only, missing, not a string, without a dot,   *)
(* held by a seed record; and creates whose body is no JSON text.          *)

ValidateNames == {Str(<<" ", "A", "l", "\t">>), Str(<<>>), Str(<<" ">>),
                  Undefined, NumberValue}

ValidateEmails == {Str(<<" ">> \o NewEmail \o <<" ">>), Str(<<"a", "@", "b">>),
                   Undefined, Str(JaneEmail)}

ValidateBodies == [name : ValidateNames, email : ValidateEmails]

\* a seed record, the record the first create adds, and "1x"
ValidateIds == {NumStr(1), NumStr(SeedNextId), <<"1", "x">>}

NextValidate ==
    \/ \E body \in ValidateBodies : PostUsers(1, body)
    \/ \E id \in ValidateIds, body \in ValidateBodies : PutUser(1, id, body)
    \/ MalformedJson(1)
    \/ FinalHandlerDone(1)
    \/ Finish(1)

SpecValidate == Init /\ [][NextValidate]_vars

----------------------------------------------------------------------------
(* Creates, deletes and the statistics, every response finished by its     *)
(* 'finish' event.                                                         *)

StatsBodies == {[name |-> Str(<<"A", "l">>), email |-> Str(NewEmail)],
                [name |-> Str(<<"A", "l">>), email |-> Str(JohnEmail)]}

StatsIds == {NumStr(n) : n \in 1..SeedNextId}

NextStats ==
    \/ \E r \in Reqs, body \in StatsBodies : PostUsers(r, body)
    \/ \E r \in Reqs, id \in StatsIds : DeleteUser(r, id)
    \/ \E r \in Reqs : GetStats(r)
    \/ \E r \in Reqs : Finish(r)

SpecStats == Init /\ [][NextStats]_vars

----------------------------------------------------------------------------
(* Properties *)

\* the step in which request r enters and its handler answers
Handled(r) == inflight[r].st = "idle" /\ inflight'[r].st = "sent"

\* the step in which the 'finish' listener of request r runs
Completed(r) ==
    /\ inflight[r].st = "sent"
    /\ inflight'[r].st = "idle"
    /\ httpRequestTotal' # httpRequestTotal

InFlight == {r \in Reqs : inflight[r].st = "sent"}

LiveIds == {users[i].id : i \in 1..Len(users)}

ValidName(body) == body.name.t = "str" /\ Len(Trim(body.name.s)) > 0

\* C1: no two live records hold the same stored email.
C1_EmailUnique ==
    \A i, j \in 1..Len(users) : i # j => users[i].email # users[j].email

\* request r is a create (update) that this step answers
Creates(r) == Handled(r) /\ inflight'[r].req.method = "POST"
Updates(r) == Handled(r) /\ inflight'[r].req.method = "PUT"

\* the email of the body is a string held by a live record before the step
HeldEmail(r) ==
    /\ inflight'[r].req.body.email.t = "str"
    /\ \E i \in 1..Len(users) : users[i].email = inflight'[r].req.body.email.s

\* C2: the id of every successful create is the counter's value, which is
\* above every id assigned before and is raised by the create; the counter
\* never decreases, live ids are below it and pairwise different.
C2_LiveIdsBelowCounter ==
    /\ \A i \in 1..Len(users) : users[i].id < nextId
    /\ \A i, j \in 1..Len(users) : i < j => users[i].id < users[j].id

C2_CreateTakesFreshId ==
    /\ nextId' >= nextId
    /\ \A r \in Reqs :
          (Creates(r) /\ inflight'[r].res.status = 201)
          => /\ inflight'[r].res.data[1].id = nextId
             /\ nextId' = nextId + 1
             /\ \A i \in 1..Len(users) : users[i].id < nextId
             /\ users' = Append(users, inflight'[r].res.data[1])

C2_IdsStrictlyIncrease ==
    []C2_LiveIdsBelowCounter /\ [][C2_CreateTakesFreshId]_vars

\* C2 witness: a seed record was deleted and the create that followed took
\* id 3, above both seed ids, although the collection held one record.
C2_Witness ==
    /\ nextId = 4
    /\ 3 \in LiveIds
    /\ Len(users) = 2

\* C3 as stated: a create whose email equals a live record's email is
\* answered 409 'Email already exists', whatever the name.
C3_Original ==
    [][\A r \in Reqs :
          (Creates(r) /\ HeldEmail(r))
          => /\ inflight'[r].res.status = 409
             /\ inflight'[r].res.error = "Email already exists"]_vars

\* C3 amended: a create whose name is a string that is not empty after
\* trimming and whose email equals a live record's email is answered 409
\* 'Email already exists' and changes nothing.
C3_ConflictWhenNameValid ==
    [][\A r \in Reqs :
          (Creates(r) /\ HeldEmail(r) /\ ValidName(inflight'[r].req.body))
          => /\ inflight'[r].res.status = 409
             /\ inflight'[r].res.success = FALSE
             /\ inflight'[r].res.error = "Email already exists"
             /\ users' = users
             /\ nextId' = nextId]_vars

\* C3 witness: a create with a valid name and the email of the first seed
\* record has been answered 409.
C3_Witness ==
    \E r \in InFlight :
        /\ inflight[r].req.method = "POST"
        /\ ValidName(inflight[r].req.body)
        /\ inflight[r].req.body.email = Str(JohnEmail)
        /\ inflight[r].res.status = 409

\* the update targets a live record and carries that record's current email
OwnEmail(r) ==
    LET i == findUserById(users, inflight'[r].req.id)
    IN  i # 0 /\ inflight'[r].req.body.email = Str(users[i].email)

\* C4: an update whose email is the target record's own current email is
\* never answered 409, and is answered 200 when the name is valid.
C4_OwnEmailNoConflict ==
    [][\A r \in Reqs :
          (Updates(r) /\ OwnEmail(r))
          => /\ inflight'[r].res.status # 409
             /\ (ValidName(inflight'[r].req.body)
                   => inflight'[r].res.status = 200)]_vars

\* C5 as stated: when the 'finish' listener of a request has run, the
\* gauge has the value it had just before that request entered.
C5_Original ==
    [][\A r \in Reqs :
          Completed(r) => activeConnections' = inflight[r].before]_vars

\* C5 amended: entry raises the gauge by one, the completion step of the
\* request lowers it by one, also after a handler error answered 500, and
\* no other step changes it; the gauge is back at the value it had before
\* the request entered when no other request entered or completed between
\* its entry and its completion.
C5_GaugeStep ==
    /\ \A r \in Reqs :
          Handled(r) => /\ activeConnections' = activeConnections + 1
                        /\ inflight'[r].before = activeConnections
    /\ \A r \in Reqs :
          Completed(r) => /\ activeConnections' = activeConnections - 1
                          /\ (inflight[r].alone
                                => activeConnections' = inflight[r].before)
    /\ (\A r \in Reqs : ~Handled(r) /\ ~Completed(r))
          => activeConnections' = activeConnections

C5_GaugeRestored == [][C5_GaugeStep]_vars

\* C5 witness: a create whose handler raised an error was answered 500 and
\* has completed, and the gauge is 0 again.
C5_Witness ==
    /\ BagIn(<<"POST", "/users", 500>>, httpRequestTotal)
    /\ InFlight = {}
    /\ activeConnections = 0

\* C6: every request that has entered and is over, however its response
\* ended, has one observation in the histogram and in the counter and has
\* been taken off the gauge.
C6_OneObservationEach ==
    /\ BagCardinality(httpRequestTotal) = nreq - Cardinality(InFlight)
    /\ BagCardinality(httpRequestDuration) = nreq - Cardinality(InFlight)
    /\ activeConnections = Cardinality(InFlight)

\* C7: the sample recorded when a request completes carries the status code
\* of the response sent, in the counter and in the histogram; for an error
\* handed to the error-handling middleware that is the error's status, and
\* 500 when the error has none.
Recorded(bag, bag2, status) ==
    \E l \in BagToSet(bag2) :
        /\ l[3] = status
        /\ CopiesIn(l, bag2) = CopiesIn(l, bag) + 1
        /\ \A m \in BagToSet(bag2) \ {l} : CopiesIn(m, bag2) = CopiesIn(m, bag)

C7_StatusStep ==
    /\ \A r \in Reqs :
          Completed(r)
          => /\ Recorded(httpRequestTotal, httpRequestTotal',
                         inflight[r].res.status)
             /\ Recorded(httpRequestDuration, httpRequestDuration',
                         inflight[r].res.status)
    /\ \A r \in Reqs :
          (Handled(r) /\ inflight'[r].req.path = MalformedPath)
          => inflight'[r].res.status =
                 (IF inflight'[r].req.error.status # 0
                  THEN inflight'[r].req.error.status ELSE 500)

C7_StatusLabel == [][C7_StatusStep]_vars

\* C7 witness: an error with status 400 and an error without a status were
\* both handled, and their samples are recorded under 400 and 500.
C7_Witness ==
    /\ BagIn(<<"GET", MalformedPath, 400>>, httpRequestTotal)
    /\ BagIn(<<"GET", MalformedPath, 500>>, httpRequestTotal)

\* the record with this id is live and holds this stored email
Holds(id, email) ==
    \E i \in 1..Len(users) : users[i].id = id /\ users[i].email = email

\* request s is a successful create, or a successful update
Succeeded(s) ==
    \/ inflight[s].req.method = "POST" /\ inflight[s].res.status = 201
    \/ inflight[s].req.method = "PUT" /\ inflight[s].res.status = 200

\* C9: a create and another create or update that carry the same email and
\* are in flight at the same time never both succeed in giving that email
\* to two records: the two records they answered with do not both hold it.
C9_NoDoubleSuccess ==
    \A r, s \in InFlight :
        (/\ r # s
         /\ inflight[r].req.method = "POST"
         /\ inflight[r].res.status = 201
         /\ Succeeded(s)
         /\ inflight[s].req.body.email = inflight[r].req.body.email
         /\ inflight[s].res.data[1].id # inflight[r].res.data[1].id)
        => ~(/\ Holds(inflight[r].res.data[1].id,
                      inflight[r].res.data[1].email)
             /\ Holds(inflight[s].res.data[1].id,
                      inflight[r].res.data[1].email))

\* the list requests in flight, and the numeric value of their limit
Lists == {r \in InFlight : inflight[r].req.path = "/users"
                              /\ inflight[r].req.method = "GET"}

LimitOf(r) == QueryNumber(inflight[r].req.query.limit, 10)

\* p is the least integer with p >= n / d
IsCeiling(p, n, d) ==
    \/ d > 0 /\ p * d >= n /\ (p - 1) * d < n
    \/ d < 0 /\ p * d <= n /\ (p - 1) * d > n

\* C10 as stated: a list response to limit=L holds at most L items and its
\* pagination.pages is ceil(total/L).
C10_Original ==
    \A r \in Lists :
        LimitOf(r).k = "num"
        => /\ Len(inflight[r].res.data) <= LimitOf(r).v
           /\ inflight[r].res.pagination.pages.k = "num"
           /\ IsCeiling(inflight[r].res.pagination.pages.v,
                        inflight[r].res.pagination.total, LimitOf(r).v)

\* C10 amended: a list response to a limit that is a positive integer L
\* holds at most L items and its pagination.pages is ceil(total/L), total
\* being the size of the filtered set, whatever the page value.
C10_PositiveLimit ==
    \A r \in Lists :
        (LimitOf(r).k = "num" /\ LimitOf(r).v > 0)
        => /\ Len(inflight[r].res.data) <= LimitOf(r).v
           /\ inflight[r].res.pagination.total =
                 Len(FilteredUsers(users, inflight[r].req.query.search))
           /\ inflight[r].res.pagination.pages.k = "num"
           /\ IsCeiling(inflight[r].res.pagination.pages.v,
                        inflight[r].res.pagination.total, LimitOf(r).v)

\* C10 witness: page=1&limit=1 on the two seed records returns one item and
\* two pages.
C10_Witness ==
    \E r \in Lists :
        /\ users = SeedUsers
        /\ inflight[r].req.query =
              [page |-> Str(NumStr(1)), limit |-> Str(NumStr(1)),
               search |-> Undefined]
        /\ Len(inflight[r].res.data) = 1
        /\ inflight[r].res.pagination.pages = JsNum(2)

\* the numeric value of the page of a list request, and the number of pages
\* that total records fill at d records a page
PageOf(r) == QueryNumber(inflight[r].req.query.page, 1)

PageCount(total, d) == CHOOSE p \in 0..total : IsCeiling(p, total, d)

\* the page of list request r is no number, or lies outside 1 .. the number
\* of pages of the filtered set; the limit is a positive integer
PageOutOfRange(r) ==
    /\ LimitOf(r).k = "num"
    /\ LimitOf(r).v > 0
    /\ \/ PageOf(r).k # "num"
       \/ PageOf(r).v < 1
       \/ PageOf(r).v >
             PageCount(Len(FilteredUsers(users, inflight[r].req.query.search)),
                       LimitOf(r).v)

\* C11: a list request whose page lies outside the range of the filtered
\* set is answered 200 with success = true and an empty item list.
C11_OutOfRangeEmpty ==
    \A r \in Lists :
        PageOutOfRange(r)
        => /\ inflight[r].res.status = 200
           /\ inflight[r].res.success = TRUE
           /\ inflight[r].res.data = <<>>

\* two characters are the same letter in either case, or the same character
SameLetter(a, b) ==
    \/ a = b
    \/ \E j \in 1..26 : {a, b} \subseteq {UpperCase[j], LowerCase[j]}

\* s contains t ignoring case
ContainsIgnoringCase(s, t) ==
    \E i \in 0..(Len(s) - Len(t)) :
        \A k \in 1..Len(t) : SameLetter(s[i + k], t[k])

\* list request r carries a search term, and record u contains it
Searches(r) ==
    /\ inflight[r].req.query.search.t = "str"
    /\ inflight[r].req.query.search.s # <<>>

Hit(u, r) ==
    \/ ContainsIgnoringCase(u.name, inflight[r].req.query.search.s)
    \/ ContainsIgnoringCase(u.email, inflight[r].req.query.search.s)

Hits(r) == {i \in 1..Len(users) : Hit(users[i], r)}

\* list request r asks for the first page with the default limit
FirstPage(r) ==
    /\ inflight[r].req.query.page = Undefined
    /\ inflight[r].req.query.limit = Undefined

\* C12: for a list request with a search term, pagination.total is the
\* number of live records whose name or email contains the term ignoring
\* case; the first page (which holds the whole filtered set) consists of
\* exactly those records, each once, in collection order.
C12_SearchFilter ==
    \A r \in Lists :
        Searches(r)
        => /\ inflight[r].res.pagination.total = Cardinality(Hits(r))
           /\ FirstPage(r)
                 => /\ Len(inflight[r].res.data) = Cardinality(Hits(r))
                    /\ \A i \in Hits(r) :
                          \E k \in 1..Len(inflight[r].res.data) :
                              inflight[r].res.data[k] = users[i]
                    /\ \A k, l \in 1..Len(inflight[r].res.data) :
                          k < l
                          => \E i, j \in Hits(r) :
                                /\ i < j
                                /\ inflight[r].res.data[k] = users[i]
                                /\ inflight[r].res.data[l] = users[j]

\* C12 witness: a search for "E.C" on the seed records and a third record
\* with email a@b.c returns the two seed records, matched by their emails.
C12_Witness ==
    \E r \in Lists :
        /\ inflight[r].req.query.search = Str(<<"E", ".", "C">>)
        /\ FirstPage(r)
        /\ Len(users) = 3
        /\ inflight[r].res.data = SeedUsers
        /\ inflight[r].res.pagination.total = 2

\* request r is a getById (a delete) that this step answers
Gets(r) ==
    /\ Handled(r)
    /\ inflight'[r].req.method = "GET"
    /\ inflight'[r].route = "/users/:id"

Deletes(r) == Handled(r) /\ inflight'[r].req.method = "DELETE"

\* the positions of the live records whose identifier, written as a decimal
\* numeral, is the id the request names
Named(id) == {i \in 1..Len(users) : NumStr(users[i].id) = id}

NotFound(res) ==
    /\ res.status = 404
    /\ res.success = FALSE
    /\ res.error = "User not found"

\* C13: getById answers 200 with the live record whose identifier equals the
\* requested id when there is one, and 404 'User not found' otherwise.
C13_GetById ==
    [][\A r \in Reqs :
          Gets(r)
          => /\ \A i \in Named(inflight'[r].req.id) :
                   /\ inflight'[r].res.status = 200
                   /\ inflight'[r].res.data = <<users[i]>>
             /\ (Named(inflight'[r].req.id) = {}
                   => NotFound(inflight'[r].res))]_vars

\* the name of the body is missing, empty or white space only; the email is
\* missing or has not the shape local@domain.tld
NameBad(body) ==
    \/ body.name.t = "undef"
    \/ /\ body.name.t = "str"
       /\ \A k \in 1..Len(body.name.s) : body.name.s[k] \in WhiteSpace

EmailBad(body) ==
    \/ body.email.t = "undef"
    \/ body.email.t = "str" /\ ~EmailRegexTest(body.email.s)

\* request r is a create, or an update of a live record, that this step
\* answers, and its name is a string or missing
Validated(r) ==
    /\ Creates(r) \/ (Updates(r) /\ inflight'[r].res.status # 404)
    /\ inflight'[r].req.body.name.t # "num"

ValidationFailed(res, details) ==
    /\ res.status = 400
    /\ res.success = FALSE
    /\ res.error = "Validation failed"
    /\ res.details = details

BodyInvalid(body) ==
    \/ ~ValidName(body)
    \/ body.email.t # "str"
    \/ EmailBad(body)

\* a live record at another position than i holds the email of the body
HeldByOther(i, body) ==
    \E j \in 1..Len(users) : j # i /\ users[j].email = body.email.s

\* the answer an update of the record at position i is due, by precedence
UpdateAnswer(i, body, res) ==
    IF BodyInvalid(body)
    THEN /\ res.status = 400
         /\ res.error = "Validation failed"
    ELSE IF HeldByOther(i, body)
    THEN /\ res.status = 409
         /\ res.error = "Email already exists"
    ELSE /\ res.status = 200
         /\ res.success = TRUE
         /\ res.data = <<users'[i]>>
         /\ users'[i].id = users[i].id
         /\ users'[i].name = Trim(body.name.s)
         /\ users'[i].email = Trim(body.email.s)

\* C15: an update is answered 404 when the id is not live, whatever the
\* body; else 400 when the body is invalid; else 409 when a record with
\* another id holds the email; else 200 with the mutated record.
C15_UpdatePrecedence ==
    [][\A r \in Reqs :
          Updates(r)
          => /\ (Named(inflight'[r].req.id) = {}
                   => NotFound(inflight'[r].res))
             /\ \A i \in Named(inflight'[r].req.id) :
                   UpdateAnswer(i, inflight'[r].req.body,
                                inflight'[r].res)]_vars

\* request r is a create, update or delete that this step answers with an
\* error of the client
Refused(r) ==
    /\ Handled(r)
    /\ inflight'[r].req.method \in {"POST", "PUT", "DELETE"}
    /\ inflight'[r].res.status \in {400, 404, 409}

\* C16: a create, update or delete answered 400, 404 or 409 leaves the
\* collection (membership, order, every field) and the counter as they were.
C16_ErrorsChangeNothing ==
    [][\A r \in Reqs :
          Refused(r) => users' = users /\ nextId' = nextId]_vars

\* C16 witness: an update of record 2 with the email of record 1 has been
\* answered 409 and the store is the seed store.
C16_Witness ==
    \E r \in InFlight :
        /\ inflight[r].req.method = "PUT"
        /\ inflight[r].req.id = NumStr(2)
        /\ inflight[r].req.body.email = Str(JohnEmail)
        /\ inflight[r].res.status = 409
        /\ users = SeedUsers
        /\ nextId = SeedNextId

\* users' is users without the record at position i, the others in order
RemovedAt(i) ==
    /\ Len(users') = Len(users) - 1
    /\ \A j \in 1..(i - 1) : users'[j] = users[j]
    /\ \A j \in i..(Len(users) - 1) : users'[j] = users[j + 1]

\* request r is a getById, update or delete that this step answers
ById(r) == Gets(r) \/ Updates(r) \/ Deletes(r)

\* the ids assigned so far: the seed ids and one a create, all below the
\* counter
Assigned == 1..(nextId - 1)

\* C17: a delete of a live id answers 200 with the record of that id and
\* removes exactly that record, the others keeping their order; an id that
\* is not live any more never becomes live again, and every getById, update
\* or delete that names it is answered 404.
C17_DeleteStep ==
    /\ \A r \in Reqs :
          Deletes(r)
          => \A i \in Named(inflight'[r].req.id) :
                /\ inflight'[r].res.status = 200
                /\ inflight'[r].res.success = TRUE
                /\ inflight'[r].res.data = <<users[i]>>
                /\ RemovedAt(i)
                /\ users[i].id \notin {users'[j].id : j \in 1..Len(users')}
    /\ \A n \in Assigned \ LiveIds :
          /\ n \notin {users'[j].id : j \in 1..Len(users')}
          /\ \A r \in Reqs :
                (ById(r) /\ inflight'[r].req.id = NumStr(n))
                => NotFound(inflight'[r].res) /\ users' = users

C17_DeleteIsFinal == [][C17_DeleteStep]_vars

\* C17 witness: the delete of record 1 has completed, and a later update
\* that names id 1 has been answered 404.
C17_Witness ==
    \E r \in InFlight :
        /\ BagIn(<<"DELETE", "/users/:id", 200>>, httpRequestTotal)
        /\ 1 \notin LiveIds
        /\ inflight[r].req.method = "PUT"
        /\ inflight[r].req.id = NumStr(1)
        /\ inflight[r].res.status = 404

\* the number of creates answered 201 so far: those whose response is
\* finished are in the counter, the others are in flight
SuccessfulCreates ==
    CopiesIn(<<"POST", "/users", 201>>, httpRequestTotal)
    + Cardinality({r \in InFlight : /\ inflight[r].req.method = "POST"
                                     /\ inflight[r].res.status = 201})

StrippedOf(t, s) ==
    \E a, b \in 0..Len(s) :
        /\ a + b <= Len(s)
        /\ t = SubSeq(s, a + 1, Len(s) - b)
        /\ \A k \in 1..a : s[k] \in WhiteSpace
        /\ \A k \in (Len(s) - b + 1)..Len(s) : s[k] \in WhiteSpace
        /\ t # <<>> => t[1] \notin WhiteSpace /\ t[Len(t)] \notin WhiteSpace

\* C19: a create answered 201 returns a new record whose name and email
\* are those of the request without surrounding white space; the collection
\* afterwards is the old one with that record appended, and getById under
\* the record's id returns it.
C19_CreateAppends ==
    [][\A r \in Reqs :
          (Creates(r) /\ inflight'[r].res.status = 201)
          => LET body == inflight'[r].req.body
                 rec == inflight'[r].res.data[1]
             IN  /\ inflight'[r].res.success = TRUE
                 /\ Len(inflight'[r].res.data) = 1
                 /\ StrippedOf(rec.name, body.name.s)
                 /\ StrippedOf(rec.email, body.email.s)
                 /\ rec.id \notin LiveIds
                 /\ users' = Append(users, rec)
                 /\ GetUserResult(users', NumStr(rec.id))
                       = UserRes(200, rec)]_vars

\* C19 witness: a create with name " Al<tab>" and email " a@b.c " has been
\* answered 201 with the record (3, "Al", "a@b.c"), the last of the
\* collection.
C19_Witness ==
    \E r \in InFlight :
        /\ inflight[r].req.method = "POST"
        /\ inflight[r].req.body =
              [name |-> Str(<<" ", "A", "l", "\t">>),
               email |-> Str(<<" ">> \o NewEmail \o <<" ">>)]
        /\ inflight[r].res.status = 201
        /\ inflight[r].res.data[1].name = <<"A", "l">>
        /\ inflight[r].res.data[1].email = NewEmail
        /\ users[Len(users)] = inflight[r].res.data[1]

\* this step answers request r, whose body could not be parsed
RejectedUnparsed(r) ==
    /\ inflight[r].st = "idle"
    /\ inflight'[r].st = "rejected"

\* the response is a JSON object with a success field of this value
SuccessIs(res, value) == res.kind # "html" /\ res.success = value

\* C20: a POST /users whose JSON body cannot be parsed is answered before
\* any route handler runs, with status 400 and a body whose success field is
\* false, and the collection is unchanged.
C20_MalformedJson ==
    [][\A r \in Reqs :
          RejectedUnparsed(r)
          => /\ inflight'[r].route = ""
             /\ inflight'[r].res.status = 400
             /\ SuccessIs(inflight'[r].res, FALSE)
             /\ users' = users
             /\ nextId' = nextId]_vars

\* this step answers request r from a handler of the router: a route or the
\* error-handling middleware, not the final handler of the application
RouterAnswers(r) == Handled(r) /\ inflight'[r].req.path # UnmatchedPath

\* C21: every response of the router's handlers has a boolean success field,
\* true exactly for status 200 and 201 and false exactly for 400, 404, 409
\* and 500; a response with success = false has an error string; details is
\* present only on the 400 'Validation failed' response.
C21_EnvelopeStep ==
    \A r \in Reqs :
        RouterAnswers(r)
        => LET res == inflight'[r].res
           IN  /\ res.kind # "html"
               /\ res.success \in BOOLEAN
               /\ res.status \in {200, 201, 400, 404, 409, 500}
               /\ res.success = TRUE <=> res.status \in {200, 201}
               /\ res.success = FALSE <=> res.status \in {400, 404, 409, 500}
               /\ res.success = FALSE => res.error # ""
               /\ res.details # <<>>
                     => res.status = 400 /\ res.error = "Validation failed"

C21_Envelope == [][C21_EnvelopeStep]_vars

\* C21 witness: a create with an empty name has been answered 400 with a
\* details list, and a request the error-handling middleware answered has
\* completed with status 500.
C21_Witness ==
    \E r \in InFlight :
        /\ inflight[r].req.method = "POST"
        /\ inflight[r].res.status = 400
        /\ inflight[r].res.details = <<"Name is required">>
        /\ BagIn(<<"GET", MalformedPath, 500>>, httpRequestTotal)

\* the number of deletes answered 200 so far, counted like the creates
SuccessfulDeletes ==
    CopiesIn(<<"DELETE", "/users/:id", 200>>, httpRequestTotal)
    + Cardinality({r \in InFlight : /\ inflight[r].req.method = "DELETE"
                                     /\ inflight[r].res.status = 200})

\* C22: the number of live records is 2 plus the successful creates minus
\* the successful deletes; the statistics report that number as totalUsers
\* and change neither the collection nor the counter.
C22_LiveCount == Len(users) = 2 + SuccessfulCreates - SuccessfulDeletes

C22_StatsStep ==
    \A r \in Reqs :
        (Handled(r) /\ inflight'[r].route = "/stats")
        => /\ inflight'[r].res.status = 200
           /\ inflight'[r].res.totalUsers = Len(users)
           /\ inflight'[r].res.totalUsers
                 = 2 + SuccessfulCreates - SuccessfulDeletes
           /\ users' = users
           /\ nextId' = nextId

C22_StatsCount == []C22_LiveCount /\ [][C22_StatsStep]_vars

\* C22 witness: after the delete of a seed record has completed the
\* statistics report one user.
C22_Witness ==
    \E r \in InFlight :
        /\ inflight[r].route = "/stats"
        /\ inflight[r].res.totalUsers = 1
        /\ BagIn(<<"DELETE", "/users/:id", 200>>, httpRequestTotal)

\* C23: a successful update leaves the target's id, creation timestamp and
\* position, every other record and the counter as they were (so it changes
\* at most name, email and update timestamp); in every step a record that
\* is in the collection before and after has the same creation timestamp.
C23_UpdateStep ==
    /\ \A r \in Reqs :
          (Updates(r) /\ inflight'[r].res.status = 200)
          => /\ nextId' = nextId
             /\ Len(users') = Len(users)
             /\ \E i \in 1..Len(users) :
                   /\ users'[i] = inflight'[r].res.data[1]
                   /\ users'[i].id = users[i].id
                   /\ users'[i].createdAt = users[i].createdAt
                   /\ \A j \in 1..Len(users) : j # i => users'[j] = users[j]
    /\ \A i \in 1..Len(users), j \in 1..Len(users') :
          users'[j].id = users[i].id
          => users'[j].createdAt = users[i].createdAt

C23_UpdateFrame == [][C23_UpdateStep]_vars

\* C23 witness: record 1, created at time 0, has been updated at time 1: it
\* has the new name, the update timestamp 1 and the creation timestamp 0.
C23_Witness ==
    \E r \in InFlight :
        /\ inflight[r].req.method = "PUT"
        /\ inflight[r].res.status = 200
        /\ users[1].id = 1
        /\ users[1].name = <<"A", "l">>
        /\ users[1].createdAt = 0
        /\ users[1].updatedAt = 1
        /\ users[2] = SeedUsers[2]

\* this step answers a successful update that returns the record with id n
UpdatedNow(n) ==
    \E r \in Reqs :
        /\ Updates(r)
        /\ inflight'[r].res.status = 200
        /\ inflight'[r].res.data[1].id = n

\* C24: a record is created without update timestamp; the timestamp of a
\* record is set or changed only by the step of a successful update of that
\* record, which leaves it set; once set it stays set; an update answered
\* 400, 404 or 409 changes no record.
C24_StampStep ==
    /\ \A r \in Reqs :
          (Creates(r) /\ inflight'[r].res.status = 201)
          => /\ inflight'[r].res.data[1].updatedAt = NoDate
             /\ users'[Len(users')].updatedAt = NoDate
    /\ \A i \in 1..Len(users), j \in 1..Len(users') :
          users'[j].id = users[i].id
          => /\ users'[j].updatedAt # users[i].updatedAt
                   => UpdatedNow(users[i].id)
             /\ users[i].updatedAt # NoDate => users'[j].updatedAt # NoDate
             /\ UpdatedNow(users[i].id) => users'[j].updatedAt = now
    /\ \A r \in Reqs :
          (Updates(r) /\ inflight'[r].res.status \in {400, 404, 409})
          => users' = users

C24_UpdateStamp ==
    (\A i \in 1..Len(users) : users[i].updatedAt = NoDate)
    /\ [][C24_StampStep]_vars

\* C24 witness: an update answered 400 has completed and left record 1
\* without update timestamp; the update after it was answered 200 and
\* record 1 has the timestamp, record 2 has none.
C24_Witness ==
    \E r \in InFlight :
        /\ BagIn(<<"PUT", "/users/:id", 400>>, httpRequestTotal)
        /\ inflight[r].req.method = "PUT"
        /\ inflight[r].res.status = 200
        /\ users[1].updatedAt # NoDate
        /\ users[2].updatedAt = NoDate

\* the filtered set of list request r: the live records that contain the
\* search term, in collection order; all of them without a search term
FilteredSet(r) ==
    IF Searches(r)
    THEN LET Keep(u) == Hit(u, r) IN SelectSeq(users, Keep)
    ELSE users

\* page and limit of list request r are positive integers
PositivePage(r) ==
    /\ PageOf(r).k = "num" /\ PageOf(r).v >= 1
    /\ LimitOf(r).k = "num" /\ LimitOf(r).v >= 1

Min(a, b) == IF a < b THEN a ELSE b

\* C25: for positive integer page and limit the items of a list response
\* are the elements of the filtered set at the 0-based positions
\* (page-1)*limit .. page*limit - 1, as far as the filtered set reaches,
\* in its order.
C25_PageSlice ==
    \A r \in Lists :
        PositivePage(r)
        => LET first == (PageOf(r).v - 1) * LimitOf(r).v
               last == Min(PageOf(r).v * LimitOf(r).v, Len(FilteredSet(r)))
               data == inflight[r].res.data
           IN  /\ Len(data) = (IF last > first THEN last - first ELSE 0)
               /\ \A k \in 1..Len(data) : data[k] = FilteredSet(r)[first + k]

\* C25 witness: page=2&limit=1 on the two seed records returns the second
\* record alone.
C25_Witness ==
    \E r \in Lists :
        /\ users = SeedUsers
        /\ inflight[r].req.query =
              [page |-> Str(NumStr(2)), limit |-> Str(NumStr(1)),
               search |-> Undefined]
        /\ inflight[r].res.data = <<SeedUsers[2]>>

\* C26: a create whose body is invalid is answered 400 'Validation failed',
\* also when a live record holds its email, and changes nothing.
C26_ValidationFirst ==
    [][\A r \in Reqs :
          (Creates(r) /\ BodyInvalid(inflight'[r].req.body))
          => /\ inflight'[r].res.status = 400
             /\ inflight'[r].res.error = "Validation failed"
             /\ users' = users
             /\ nextId' = nextId]_vars

\* the label C27 expects for a request: the pattern '/users/:id' for every
\* request that names an id, the pattern of the list, create and statistics
\* routes (which is their path), and the raw path when no route matched
PatternOrPath(req) ==
    IF req.id # <<>> THEN "/users/:id" ELSE req.path

\* the completion step of request r adds one sample with this label
RecordedUnder(r, label) ==
    \E l \in BagToSet(httpRequestTotal') :
        /\ CopiesIn(l, httpRequestTotal') = CopiesIn(l, httpRequestTotal) + 1
        /\ l[1] = inflight[r].req.method
        /\ l[2] = label

\* C27: the sample of a completed request is recorded under the matched
\* route pattern when a route matched, so every request for /users/<id> is
\* under '/users/:id', and under the raw path when no route matched.
C27_LabelStep ==
    \A r \in Reqs :
        Completed(r)
        => /\ RecordedUnder(r, PatternOrPath(inflight[r].req))
           /\ inflight[r].req.id # <<>>
                 => inflight[r].req.path # "/users/:id"
           /\ inflight[r].req.path \in {UnmatchedPath, MalformedPath}
                 => RecordedUnder(r, inflight[r].req.path)

C27_RouteLabel == [][C27_LabelStep]_vars

\* C27 witness: a getById for the segment "x" and a request for an unmatched
\* path have completed; the first is recorded under '/users/:id', the
\* second under its path.
C27_Witness ==
    /\ BagIn(<<"GET", "/users/:id", 404>>, httpRequestTotal)
    /\ BagIn(<<"GET", UnmatchedPath, 404>>, httpRequestTotal)

\* the number of requests that have entered the metrics middleware and
\* whose completion step has not run: nreq counts the entries, and each
\* completion step adds one sample to the request counter
NotCompleted == nreq - BagCardinality(httpRequestTotal)

\* C28: the gauge equals the number of requests that have entered and whose
\* completion step has not run; it is never negative; it is at least 1 when
\* a handler has run and the request has not completed.
C28_GaugeState ==
    /\ activeConnections = NotCompleted
    /\ activeConnections >= 0
    /\ InFlight # {} => activeConnections >= 1

C28_GaugeCounts ==
    []C28_GaugeState
    /\ [][\A r \in Reqs : Handled(r) => activeConnections' >= 1]_vars

\* C28 witness: two requests have entered, the completion step of one has
\* run, the other is in flight, and the gauge is 1.
C28_Witness ==
    /\ nreq = 2
    /\ BagCardinality(httpRequestTotal) = 1
    /\ Cardinality(InFlight) = 1
    /\ activeConnections = 1

\* the 'finish' listener of request r runs in this step: the request leaves
\* its slot and the gauge goes down
ListenerRuns(r) ==
    /\ inflight[r].st = "sent"
    /\ inflight'[r].st = "idle"
    /\ activeConnections' = activeConnections - 1

\* C29: for every combination of method, route and status the request
\* counter equals the number of observations of the histogram; the sum of
\* the counter is 0 at the start, goes up by one in every completion step
\* and changes in no other step.
C29_SameLabels ==
    \A l \in BagToSet(httpRequestTotal) \cup BagToSet(httpRequestDuration) :
        CopiesIn(l, httpRequestTotal) = CopiesIn(l, httpRequestDuration)

C29_SumStep ==
    IF \E r \in Reqs : ListenerRuns(r)
    THEN BagCardinality(httpRequestTotal')
            = BagCardinality(httpRequestTotal) + 1
    ELSE httpRequestTotal' = httpRequestTotal

C29_CounterIsHistogram ==
    /\ BagCardinality(httpRequestTotal) = 0
    /\ []C29_SameLabels
    /\ [][C29_SumStep]_vars

\* C29 witness: two list requests have completed; counter and histogram
\* both hold 2 under (GET, /users, 200).
C29_Witness ==
    /\ CopiesIn(<<"GET", "/users", 200>>, httpRequestTotal) = 2
    /\ CopiesIn(<<"GET", "/users", 200>>, httpRequestDuration) = 2

\* the item lists of pages 1 .. n of the list request with the search term
\* and limit of query q, on the current store, one after the other
RECURSIVE PagesConcat(_, _)
PagesConcat(q, n) ==
    IF n = 0 THEN <<>>
    ELSE PagesConcat(q, n - 1)
         \o GetUsersResult(users, [q EXCEPT !.page = Str(NumStr(n))]).data

\* this step answers a list or getById request r
Reads(r) ==
    /\ Handled(r)
    /\ inflight'[r].req.method = "GET"
    /\ inflight'[r].route \in {"/users", "/users/:id"}

\* C30: for the store, search term and positive integer limit of a list
\* request, the item lists of pages 1 .. pagination.pages, one after the
\* other, are the filtered set: every matching record once, in order.  A
\* list or getById request changes neither the collection nor the counter.
C30_PagesCover ==
    \A r \in Lists :
        (LimitOf(r).k = "num" /\ LimitOf(r).v >= 1)
        => /\ inflight[r].res.pagination.pages.k = "num"
           /\ PagesConcat(inflight[r].req.query,
                          inflight[r].res.pagination.pages.v)
                 = FilteredSet(r)

C30_PagesPartition ==
    []C30_PagesCover
    /\ [][\A r \in Reqs :
             Reads(r) => users' = users /\ nextId' = nextId]_vars

\* C30 witness: on a store of three records a search for "E.C" with limit 1
\* reports two pages, which hold the first and the second seed record.
C30_Witness ==
    \E r \in Lists :
        /\ Len(users) = 3
        /\ inflight[r].req.query.search = Str(<<"E", ".", "C">>)
        /\ inflight[r].req.query.limit = Str(NumStr(1))
        /\ inflight[r].res.pagination.pages = JsNum(2)
        /\ PagesConcat(inflight[r].req.query, 2) = SeedUsers

====
